---- MODULE Spec2Model ----
(***************************************************************************)
(* microstream: the streaming render engine (render, createDeferred,       *)
(* Await, renderToStream) as a state machine.                              *)
(*                                                                         *)
(* One response is modelled: the content tree handed to renderToStream,    *)
(* the async generator render() that flattens it (a work list of nodes     *)
(* still to visit), the pull() loop that enqueues its chunks, the Await    *)
(* boundaries of the tree with their two timer races, the outstanding      *)
(* queue of deferred promises, and cancellation.  Every await of the       *)
(* source is a point where the other callbacks (timers, promise            *)
(* reactions, abort) may run, so every await separates two actions.        *)
(*                                                                         *)
(* The application (class App) is a second state machine, AppSpec: the     *)
(* pages directory, the manifest #createManifest builds from it, the       *)
(* readiness gate, listen(), and the requests dispatched by render() and   *)
(* #notFoundResponse through #match.                                       *)
(*                                                                         *)
(* AwaitSpec is one call of Await with a clock: the props of the boundary, *)
(* the moment its wrapped computation settles, and the deadlines of the    *)
(* two timers of createDeferred.                                           *)
(*                                                                         *)
(* RunsSpec is two calls of renderToStream whose steps interleave, each    *)
(* with the variables of its own closure.                                  *)
(***************************************************************************)
EXTENDS Integers, Sequences, FiniteSets

\* Number of chunks the replacement script of one boundary is flattened into
\* (the html template of Then/Catch yields its parts one by one).
ScriptChunks == 2

VARIABLES
    tree,       \* the content tree given to renderToStream (Component)
    work,       \* render(): nodes still to flatten, in document order
    cur,        \* the value render() has just yielded to the for-await loop
    pc,         \* position of pull(): next, body, sleep, wait, done, error
    out,        \* chunks accepted by controller.enqueue, in order
    queue,      \* renderToStream's queue: boundaries whose promise was pushed
    aborted,    \* renderToStream's aborted flag
    stream,     \* state of the ReadableStream: readable, closed, errored
    delay,      \* whether options.delay is a number
    bind,       \* per boundary: props.bind, pending / resolved / rejected
    wres,       \* per boundary: wrapper(props.bind): pending / then / catch / rejected
    brace,      \* per boundary: createDeferred's first race: new / racing / fast / min / failed
    dphase,     \* per boundary: the promise pushed to queue
    dcount,     \* per boundary: chunks of the script already added to text
    timedout,   \* per boundary: the max timer rejected the second race
    bindAtMin,  \* per boundary: what props.bind was when the min timer fired
    calls,      \* functions invoked so far, in order
    fs,         \* App: the entries of the pages directory, in readDir order
    manifest,   \* App: #manifest, not installed or the routes
    init,       \* App: #createManifest and #init: constructing / ready / failed
    listening,  \* App: listen(): no / awaiting (#init) / yes (serve called)
    req,        \* App: the request being dispatched, or the last one
    log,        \* App: the calls of #match so far, with what they returned
    timed,      \* Await with a clock: props, time, timers and path of one call
    runs        \* two calls of renderToStream: the closure state of each

vars == << tree, work, cur, pc, out, queue, aborted, stream, delay,
           bind, wres, brace, dphase, dcount, timedout, bindAtMin, calls,
           fs, manifest, init, listening, req, log, timed, runs >>

\* The correlation identifiers of the Await boundaries of the content trees.
Boundaries == { 1, 2 }

----------------------------------------------------------------------------
(* Content tree nodes and output chunks *)

Node(k, v, b, c) == [k |-> k, v |-> v, b |-> b, c |-> c]

Text(v)      == Node("text", v, 0, << >>)
Str(k, v, b) == Node(k, v, b, << >>)
Val(v)       == Node("val", v, 0, << >>)
Nil          == Node("nil", "", 0, << >>)
List(c)      == Node("seq", "", 0, c)
Iter(c)      == Node("iter", "", 0, c)
Async(n)     == Node("async", "", 0, << n >>)
Thunk(v, n)  == Node("thunk", v, 0, << n >>)
AwaitNode(b) == Node("await", "", b, << >>)
DeferNode(b) == Node("defer", "", b, << >>)
Pending(b)   == Node("pending", "", b, << >>)

Chunk(t, v, b) == [t |-> t, v |-> v, b |-> b]

NoValue == Chunk("none", "", 0)

\* The content trees of the model: every kind of node render() tells apart,
\* one or two Await boundaries between plain content, and a boundary inside
\* what a function returns.
PlainTree ==
    List(<< Text("a"),
            Thunk("f", List(<< Text("b"), Nil, Val("0") >>)),
            Async(Text("c")),
            Iter(<< Text("d"), Async(Text("e")) >>) >>)

OneBoundary == List(<< Text("h"), AwaitNode(1), Text("t") >>)

TwoBoundaries == List(<< Text("h"), AwaitNode(1), Text("m"), AwaitNode(2), Text("t") >>)

NestedBoundary == List(<< Thunk("g", List(<< AwaitNode(1), Text("u") >>)), Text("w") >>)

Trees == { PlainTree, OneBoundary, TwoBoundaries, NestedBoundary }

RECURSIVE BoundariesOf(_)
BoundariesOf(n) ==
    (IF n.k = "await" THEN { n.b } ELSE { })
      \cup UNION { BoundariesOf(n.c[i]) : i \in 1 .. Len(n.c) }

----------------------------------------------------------------------------
(* Await and createDeferred *)

\* A wrapper that runs the then renderer whatever props.bind settled to.
WrapperIgnoresRejection(b) == { "then", "catch", "rejected" }

\* What wrapper(props.bind) can settle to once props.bind has settled: the
\* then renderer's result, the catch renderer's result (props.bind rejected,
\* or the then renderer threw), or a rejection (the catch renderer threw).
WrapperOutcomes(b) ==
    IF bind[b] = "resolved" THEN { "then", "catch", "rejected" }
    ELSE { "catch", "rejected" }

\* The placeholder of boundary id: html`<html-fragment id=...>...</html-fragment>`.
Placeholder(id) ==
    List(<< Str("placeholder", "open", id), Str("placeholder", "close", id) >>)

\* An Await that returns the placeholder and the thunk whatever the first
\* race gave.
AwaitAlwaysDefers(id) == List(<< Placeholder(id), DeferNode(id) >>)

\* An Await that returns the thunk before the placeholder.
AwaitDefersFirst(id) ==
    IF brace[id] = "fast" THEN Str("raw", wres[id], id)
    ELSE List(<< DeferNode(id), Placeholder(id) >>)

\* An Await that returns the thunk without the placeholder.
AwaitOmitsPlaceholder(id) ==
    IF brace[id] = "fast" THEN Str("raw", wres[id], id)
    ELSE List(<< DeferNode(id) >>)

\* What Await returns once createDeferred has returned: the raw text of the
\* wrapper's result on the fast path, [placeholder({ id }), deferred] when the
\* min timer won the first race.
AwaitResult(id) ==
    IF brace[id] = "fast" THEN Str("raw", wres[id], id)
    ELSE List(<< Placeholder(id), DeferNode(id) >>)

\* The script of the wrapper's result, as the deferred promise resolves to it.
\* Promise.race([timeout(), userPromise]) resolves to userPromise's result;
\* when timeout() wins, the catch handler awaits userPromise.catch(error),
\* which is userPromise again (error is no function), and returns its script.
DeferredScript(id) == Chunk("script", wres[id], id)

----------------------------------------------------------------------------
(* render(): the flattener as a function of the tree *)

StringKinds == { "text", "placeholder", "raw" }
YieldKinds  == StringKinds \cup { "val", "defer" }

\* The chunks render(n) yields, in order, with each Await boundary replaced
\* by what its Await call has returned (nothing while it has not returned).
RECURSIVE render(_)
render(n) ==
    LET RECURSIVE each(_)
        each(c) == IF c = << >> THEN << >>
                   ELSE render(Head(c)) \o each(Tail(c))
    IN  CASE n.k \in YieldKinds          -> << Chunk(n.k, n.v, n.b) >>
          [] n.k \in { "seq", "iter" }    -> each(n.c)
          [] n.k \in { "async", "thunk" } -> render(n.c[1])
          [] n.k \in { "await", "pending" } ->
                IF brace[n.b] \in { "fast", "min" } THEN render(AwaitResult(n.b))
                ELSE << >>
          [] OTHER                        -> << >>

----------------------------------------------------------------------------
(* App: pathnames, and the compilation of a file into a route *)

\* A pathname is a sequence of tokens: one token for each of the characters
\* the code tells apart, and one or more tokens for each run of other
\* characters.  A name that ends with the letters index has them as its last
\* token.
Special == { "/", ".", "[", "]", ":", "*" }

IsWord(t) == t \notin Special

Drop(s, n) == SubSeq(s, n + 1, Len(s))

Last(s) == s[Len(s)]

Min(S) == CHOOSE i \in S : \A j \in S : i <= j

Max(S) == CHOOSE i \in S : \A j \in S : j <= i

\* The last place of token t in s, 0 when it is not in it.
LastIndexOf(s, t) ==
    LET S == { i \in 1 .. Len(s) : s[i] = t }
    IN  IF S = { } THEN 0 ELSE Max(S)

\* The value of +Infinity: above every finite score and depth of the model.
Infinity == 1000

Plus(a, b) == IF a = Infinity \/ b = Infinity THEN Infinity ELSE a + b

\* .split('.').slice(0, -1).join('.'): what precedes the last dot, and the
\* empty string when there is no dot.
StripExtension(p) == SubSeq(p, 1, LastIndexOf(p, ".") - 1)

\* .replace(/\[\.\.\.(.+)\]/, ':$1*'): the first [... that has a ] further
\* on, up to the last ] of the string, since .+ is greedy.
ReplaceCatchAll(p) ==
    LET S == { i \in 1 .. Len(p) :
                 /\ i + 5 <= Len(p)
                 /\ p[i] = "[" /\ p[i + 1] = "." /\ p[i + 2] = "." /\ p[i + 3] = "."
                 /\ \E j \in i + 5 .. Len(p) : p[j] = "]" }
    IN  IF S = { } THEN p
        ELSE LET i == Min(S)
                 j == LastIndexOf(p, "]")
             IN  SubSeq(p, 1, i - 1) \o << ":" >> \o SubSeq(p, i + 4, j - 1)
                   \o << "*" >> \o Drop(p, j)

\* .replace(/\[(.+)\]/g, ':$1'): the first [ that has a ] further on, up to
\* the last ] of the string; no second match is left after it.
ReplaceNamed(p) ==
    LET S == { i \in 1 .. Len(p) :
                 p[i] = "[" /\ \E j \in i + 2 .. Len(p) : p[j] = "]" }
    IN  IF S = { } THEN p
        ELSE LET i == Min(S)
                 j == LastIndexOf(p, "]")
             IN  SubSeq(p, 1, i - 1) \o << ":" >> \o SubSeq(p, i + 1, j - 1)
                   \o Drop(p, j)

\* .replace(/index$/, ''): the letters index at the end of the string.
StripIndex(p) ==
    IF p # << >> /\ Last(p) = "index" THEN SubSeq(p, 1, Len(p) - 1) ELSE p

\* .split('/').
RECURSIVE Split(_)
Split(p) ==
    LET S == { i \in 1 .. Len(p) : p[i] = "/" }
    IN  IF S = { } THEN << p >>
        ELSE << SubSeq(p, 1, Min(S) - 1) >> \o Split(Drop(p, Min(S)))

\* The score of the segment at place i (counted from 1): i + 1 of the code,
\* whose i counts from 0.
SegmentScore(segment, i) ==
    IF segment # << >> /\ Head(segment) = ":"
    THEN IF Last(segment) = "*" THEN Infinity ELSE i
    ELSE 0

RECURSIVE SumScores(_, _)
SumScores(segments, i) ==
    IF i > Len(segments) THEN 0
    ELSE Plus(SegmentScore(segments[i], i), SumScores(segments, i + 1))

\* The route of the file at fileURL, a pathname relative to the pages root.
RouteOf(fileURL) ==
    LET pathname == StripExtension(fileURL)
        patternPathname == StripIndex(ReplaceNamed(ReplaceCatchAll(pathname)))
        segments == Tail(Split(patternPathname))
    IN  [ pathname |-> pathname,
          fileURL  |-> fileURL,
          pattern  |-> patternPathname,
          type     |-> IF Len(fileURL) >= 2 /\ Last(fileURL) = "tsx"
                          /\ fileURL[Len(fileURL) - 1] = "."
                       THEN "page" ELSE "endpoint",
          depth    |-> IF patternPathname # << >> /\ Last(patternPathname) = "*"
                       THEN Infinity ELSE Len(segments) - 1,
          score    |-> SumScores(segments, 1) ]

----------------------------------------------------------------------------
(* App: URLPattern over pathnames *)

\* The parts of a pathname pattern: fixed text, :name with the / before it as
\* its prefix and * after it as its modifier, and * alone.  A : that no name
\* follows makes the pattern invalid.
RECURSIVE Parse(_)
Parse(p) ==
    IF p = << >> THEN << >>
    ELSE IF Len(p) >= 3 /\ p[1] = "/" /\ p[2] = ":" /\ IsWord(p[3])
    THEN IF Len(p) >= 4 /\ p[4] = "*"
         THEN << [kind |-> "name", v |-> p[3], prefix |-> "/", mod |-> "*"] >>
                \o Parse(Drop(p, 4))
         ELSE << [kind |-> "name", v |-> p[3], prefix |-> "/", mod |-> ""] >>
                \o Parse(Drop(p, 3))
    ELSE IF Len(p) >= 2 /\ p[1] = ":" /\ IsWord(p[2])
    THEN IF Len(p) >= 3 /\ p[3] = "*"
         THEN << [kind |-> "name", v |-> p[2], prefix |-> "", mod |-> "*"] >>
                \o Parse(Drop(p, 3))
         ELSE << [kind |-> "name", v |-> p[2], prefix |-> "", mod |-> ""] >>
                \o Parse(Drop(p, 2))
    ELSE IF p[1] = ":"
    THEN << [kind |-> "invalid", v |-> ":", prefix |-> "", mod |-> ""] >>
           \o Parse(Tail(p))
    ELSE IF p[1] = "*"
    THEN << [kind |-> "wild", v |-> "0", prefix |-> "", mod |-> ""] >>
           \o Parse(Tail(p))
    ELSE << [kind |-> "lit", v |-> p[1], prefix |-> "", mod |-> ""] >>
           \o Parse(Tail(p))

\* new URLPattern({ pathname }) throws on an invalid pattern and on a name
\* used twice.
ValidPattern(p) ==
    LET parts == Parse(p)
    IN  /\ \A i \in 1 .. Len(parts) : parts[i].kind # "invalid"
        /\ \A i, j \in 1 .. Len(parts) :
              (i # j /\ parts[i].kind = "name" /\ parts[j].kind = "name")
                  => parts[i].v # parts[j].v

\* The number of tokens of s before its first /.
RECURSIVE Run(_)
Run(s) == IF s = << >> \/ Head(s) = "/" THEN 0 ELSE 1 + Run(Tail(s))

\* v is one segment, or more when the prefix / separates them.
Repeated(v, prefix) ==
    /\ v # << >> /\ Head(v) # "/" /\ Last(v) # "/"
    /\ prefix = "" => \A i \in 1 .. Len(v) : v[i] # "/"
    /\ \A i \in 1 .. Len(v) - 1 : ~(v[i] = "/" /\ v[i + 1] = "/")

NoGroups == [ok |-> FALSE, groups |-> { }]

\* pattern.exec on a pathname: whether the parts match the whole of s, and
\* the groups, as the set of the pairs of a name and its value.  A name
\* matches the fewest tokens of one segment that let the rest match; with the
\* modifier * it matches as many segments as it can, or nothing.
RECURSIVE Exec(_, _)
Exec(parts, s) ==
    IF parts = << >> THEN [ok |-> s = << >>, groups |-> { }]
    ELSE
      LET p    == Head(parts)
          rest == Tail(parts)
          pre  == p.prefix = "" \/ (s # << >> /\ Head(s) = "/")
          t    == IF p.prefix = "" THEN s ELSE Tail(s)
      IN  CASE p.kind = "lit" ->
                 IF s # << >> /\ Head(s) = p.v THEN Exec(rest, Tail(s))
                 ELSE NoGroups
            [] p.kind = "name" /\ p.mod = "" ->
                 LET N == IF pre THEN { n \in 1 .. Run(t) : Exec(rest, Drop(t, n)).ok }
                          ELSE { }
                 IN  IF N = { } THEN NoGroups
                     ELSE [ok |-> TRUE,
                           groups |-> Exec(rest, Drop(t, Min(N))).groups
                                        \cup { << p.v, SubSeq(t, 1, Min(N)) >> }]
            [] p.kind = "name" /\ p.mod = "*" ->
                 LET N == IF pre
                          THEN { n \in 1 .. Len(t) :
                                   /\ Repeated(SubSeq(t, 1, n), p.prefix)
                                   /\ Exec(rest, Drop(t, n)).ok }
                          ELSE { }
                 IN  IF N # { }
                     THEN [ok |-> TRUE,
                           groups |-> Exec(rest, Drop(t, Max(N))).groups
                                        \cup { << p.v, SubSeq(t, 1, Max(N)) >> }]
                     ELSE [ok |-> Exec(rest, s).ok,
                           groups |-> Exec(rest, s).groups \cup { << p.v, << >> >> }]
            [] p.kind = "wild" ->
                 LET N == { n \in 0 .. Len(s) : Exec(rest, Drop(s, n)).ok }
                 IN  IF N = { } THEN NoGroups
                     ELSE [ok |-> TRUE,
                           groups |-> Exec(rest, Drop(s, Max(N))).groups
                                        \cup { << p.v, SubSeq(s, 1, Max(N)) >> }]
            [] OTHER -> NoGroups

\* r.pattern.test({ pathname }).
Test(r, pathname) == Exec(Parse(r.pattern), pathname).ok

\* A pattern whose exec gives no groups.
GroupsEmpty(r, pathname) == { }

\* r.pattern.exec({ pathname }).pathname.groups.
Groups(r, pathname) == Exec(Parse(r.pattern), pathname).groups

----------------------------------------------------------------------------
(* App: #match *)

NoRoute == RouteOf(<< >>)

NoMatch == [found |-> FALSE, route |-> NoRoute, params |-> { }]

\* url.pathname.split('/').length - 2.
RequestDepth(path) == Len(Split(path)) - 2

\* matches.sort(by score): the sort is stable, a route goes behind the routes
\* before it whose score is not greater.
RECURSIVE SortByScore(_)
SortByScore(m) ==
    IF m = << >> THEN << >>
    ELSE LET r      == Last(m)
             sorted == SortByScore(SubSeq(m, 1, Len(m) - 1))
             S      == { i \in 1 .. Len(sorted) : sorted[i].score <= r.score }
             k      == IF S = { } THEN 0 ELSE Max(S)
         IN  SubSeq(sorted, 1, k) \o << r >> \o Drop(sorted, k)

\* The routes that pass the depth filter and the pattern test, in the order
\* of the manifest.
Matches(routes, path) ==
    LET Passes(r) == /\ ~(RequestDepth(path) > r.depth)
                     /\ Test(r, StripIndex(path))
    IN  SelectSeq(routes, Passes)

\* #match(url) for a url of pathname path.
Match(routes, path) ==
    LET pathname == StripIndex(path)
        matches  == Matches(routes, path)
    IN  IF Len(matches) = 1
        THEN [found |-> TRUE, route |-> matches[1],
              params |-> Groups(matches[1], pathname)]
        ELSE LET sorted == SortByScore(matches)
             IN  IF sorted = << >> THEN NoMatch
                 ELSE [found |-> TRUE, route |-> Head(sorted),
                       params |-> Groups(Head(sorted), pathname)]

\* A #match that sorts the routes of the manifest themselves, last to first.
RECURSIVE RoutesReversed(_)
RoutesReversed(routes) ==
    IF routes = << >> THEN << >>
    ELSE Append(RoutesReversed(Tail(routes)), Head(routes))

\* A #match that sorts the routes of the manifest themselves, by score.
RoutesSorted(routes) == SortByScore(routes)

\* manifest.routes after a call of #match: matches is an array of its own,
\* and it is matches that is sorted.
RoutesAfterMatch(routes) == routes

----------------------------------------------------------------------------
(* App: the pages directory and #createManifest *)

File(name) == [name |-> name, isDirectory |-> FALSE, entries |-> << >>]

Dir(name, entries) == [name |-> name, isDirectory |-> TRUE, entries |-> entries]

AboutPage    == File(<< "about", ".", "tsx" >>)
NamedPage    == File(<< "[", "page", "]", ".", "tsx" >>)
CatchAllPage == File(<< "[", ".", ".", ".", "rest", "]", ".", "tsx" >>)
IndexPage    == File(<< "index", ".", "tsx" >>)
NotFoundPage == File(<< "404", ".", "tsx" >>)
Endpoint     == File(<< "b", ".", "ts" >>)

\* The pages directories of the model: none, a static, a named and a
\* catch-all page in two orders, an index page with a 404 page and an
\* endpoint, a file in a directory, a file two directories down, a directory
\* with an index page next to a file of the directory's name, two named
\* pages, a page with a capture inside its name (a[b].tsx) before a static
\* page (ax.tsx), a named page in a named directory ([a]/[b].tsx), a page
\* with a catch-all inside its name (a[...r].tsx) before a named page, a page
\* whose name starts with a * (*x.tsx), a page whose name ends with the
\* letters index (reindex.tsx) before the page re.tsx, and a page whose
\* pattern does not compile ([[a]].tsx) after one whose pattern does.
NoPages == << >>

PagesDirs ==
    { NoPages,
      << CatchAllPage, NamedPage, AboutPage >>,
      << AboutPage, NamedPage, CatchAllPage >>,
      << IndexPage, NotFoundPage, Endpoint >>,
      << Dir(<< "a" >>, << File(<< "b", ".", "tsx" >>) >>) >>,
      << Dir(<< "a" >>, << Dir(<< "c" >>, << File(<< "d", ".", "tsx" >>) >>) >>) >>,
      << Dir(<< "a" >>, << IndexPage >>), File(<< "a", ".", "tsx" >>) >>,
      << File(<< "[", "a", "]", ".", "tsx" >>), File(<< "[", "b", "]", ".", "tsx" >>) >>,
      << File(<< "a", "[", "b", "]", ".", "tsx" >>), File(<< "a", "x", ".", "tsx" >>) >>,
      << Dir(<< "[", "a", "]" >>, << File(<< "[", "b", "]", ".", "tsx" >>) >>) >>,
      << File(<< "a", "[", ".", ".", ".", "r", "]", ".", "tsx" >>), NamedPage >>,
      << File(<< "*", "x", ".", "tsx" >>) >>,
      << File(<< "re", "index", ".", "tsx" >>), File(<< "re", ".", "tsx" >>) >>,
      << AboutPage, File(<< "[", "[", "a", "]", "]", ".", "tsx" >>) >> }

\* The pathnames of the requests of the model.
RequestPaths ==
    { << "/" >>, << "/", "index" >>, << "/", "about" >>, << "/", "a" >>,
      << "/", "a", "/", "b" >>, << "/", "b" >>, << "/", "a", "x" >>,
      << "/", "a", "/", "x" >>, << "/", "re", "index" >> }

\* Deno.readDir(fileURL) for fileURL = new URL(name, pages + '/'): the entries
\* of the directory of that name right under pages; it throws when there is
\* none.
ReadDir(dir, name) ==
    LET S == { i \in 1 .. Len(dir) : dir[i].name = name /\ dir[i].isDirectory }
    IN  IF S = { } THEN [ok |-> FALSE, entries |-> << >>]
        ELSE [ok |-> TRUE, entries |-> dir[Min(S)].entries]

NoManifest == [ok |-> FALSE, routes |-> << >>]

\* collect(ent) for each entry of a directory in turn, and collect(ent)
\* itself: root is never passed on, so fileURL is new URL(ent.name, pages +
\* '/') at every depth.  A directory is read and each entry collected; a file
\* gives one route.  The result is the routes pushed, or a failure when
\* readDir or new URLPattern throws.
RECURSIVE CollectAll(_, _)
CollectAll(dir, entries) ==
    IF entries = << >> THEN [ok |-> TRUE, routes |-> << >>]
    ELSE
      LET ent     == Head(entries)
          fileURL == << "/" >> \o ent.name
          first   == IF ent.isDirectory
                     THEN IF ReadDir(dir, ent.name).ok
                          THEN CollectAll(dir, ReadDir(dir, ent.name).entries)
                          ELSE NoManifest
                     ELSE IF ValidPattern(RouteOf(fileURL).pattern)
                          THEN [ok |-> TRUE, routes |-> << RouteOf(fileURL) >>]
                          ELSE NoManifest
      IN  IF ~first.ok THEN NoManifest
          ELSE LET others == CollectAll(dir, Tail(entries))
               IN  IF ~others.ok THEN NoManifest
                   ELSE [ok |-> TRUE, routes |-> first.routes \o others.routes]

\* #createManifest() for a pages directory.
CreateManifest(dir) == CollectAll(dir, dir)

\* The pathnames of the files of a directory tree, relative to its root.
RECURSIVE Files(_, _)
Files(entries, base) ==
    UNION { IF entries[i].isDirectory
            THEN Files(entries[i].entries, base \o << "/" >> \o entries[i].name)
            ELSE { base \o << "/" >> \o entries[i].name } : i \in 1 .. Len(entries) }

----------------------------------------------------------------------------
(* App: the state of an application and of a request *)

\* Number of requests made to one application.
MaxRequests == 2

\* The reserved pathname of the not-found route.
NotFoundPath == << "/", "404" >>

\* A request that is not made yet, or request n on its way through
\* #handleRequest and render: where it is (pc), how it came in (via), the
\* route and the captures of its last #match, whether #notFoundResponse took
\* it over, the default export of the module imported for it, the calls of
\* renderToStream made for it, and what the caller got: a response (status,
\* body, headers) or an error.
NoRequest ==
    [ n |-> 0, pc |-> "idle", via |-> "none", path |-> << >>,
      route |-> NoRoute, params |-> { }, notFound |-> FALSE,
      export |-> "none", streams |-> 0, outcome |-> "none", error |-> "none",
      status |-> 0, body |-> "none", headers |-> { } ]

NewRequest(n, via, path) ==
    [NoRequest EXCEPT !.n = n, !.via = via, !.path = path]

appVars == << fs, manifest, init, listening, req, log >>

\* The constructor has returned for the pages directory dir: #createManifest
\* is running, #init is pending, #manifest is not assigned.
AppInit(dir) ==
    /\ fs = dir
    /\ manifest = [installed |-> FALSE, routes |-> << >>]
    /\ init = "constructing"
    /\ listening = "no"
    /\ req = NoRequest
    /\ log = << >>

----------------------------------------------------------------------------
(* Await with a clock: the props of one boundary and the state of its call *)

\* The bounds Await passes to createDeferred, in ms.
MinDefault == 20
MaxDefault == 5000

\* The props of an Await element: min and timeout, each given or not, and the
\* moment (ms after the call) at which wrapper(props.bind) settles, if ever.
AwaitProps ==
    [ hasMin     : BOOLEAN,
      min        : { 5, 50 },
      hasTimeout : BOOLEAN,
      timeout    : { 1000 },
      settles    : BOOLEAN,
      at         : { 1, 10, 30, 100, 2000, 6000 } ]

\* A call of Await(props) that is not made yet: the clock at 0, no timer
\* armed, the wrapper pending.
NewAwait(props) ==
    [ props |-> props, now |-> 0, phase |-> "new", settled |-> FALSE,
      min |-> 0, max |-> 0, minAt |-> 0, maxAt |-> 0 ]

NoAwait ==
    NewAwait([ hasMin |-> FALSE, min |-> 5, hasTimeout |-> FALSE,
               timeout |-> 1000, settles |-> FALSE, at |-> 1 ])

----------------------------------------------------------------------------
(* Two calls of renderToStream: the state of each closure *)

Runs == { 1, 2 }

\* What render() yields for the content of run i: a text, the placeholder of
\* the Await boundary of the run and its deferred thunk, a text.  The
\* identifier of the boundary is that of the run.
ContentOf(i) ==
    << Chunk("text", "h", 0), Chunk("placeholder", "close", i),
       Chunk("defer", "", i), Chunk("text", "t", 0) >>

\* renderToStream(Component, options) has returned for run i: aborted is
\* false, queue is empty, the stream is readable and pull() not yet called.
NewRun(i) ==
    [ work |-> ContentOf(i), cur |-> NoValue, pc |-> "next", out |-> << >>,
      queue |-> << >>, aborted |-> FALSE, stream |-> "readable",
      deferred |-> "none" ]

\* No call of renderToStream.
NoRuns == [i \in Runs |-> [NewRun(i) EXCEPT !.work = << >>, !.pc = "idle"]]

----------------------------------------------------------------------------
(* Initial state: renderToStream(Component, options) has returned *)

StreamInit ==
    /\ tree \in Trees
    /\ work = << tree >>
    /\ cur = NoValue
    /\ pc = "next"
    /\ out = << >>
    /\ queue = << >>
    /\ aborted = FALSE
    /\ stream = "readable"
    /\ delay \in BOOLEAN
    /\ bind = [b \in Boundaries |-> "pending"]
    /\ wres = [b \in Boundaries |-> "pending"]
    /\ brace = [b \in Boundaries |-> "new"]
    /\ dphase = [b \in Boundaries |-> "none"]
    /\ dcount = [b \in Boundaries |-> 0]
    /\ timedout = [b \in Boundaries |-> FALSE]
    /\ bindAtMin = [b \in Boundaries |-> "unset"]
    /\ calls = << >>

\* One response of an application without pages.
Init == StreamInit /\ AppInit(NoPages) /\ timed = NoAwait /\ runs = NoRuns

boundaryVars == << bind, wres, brace, dphase, dcount, timedout, bindAtMin >>
streamVars   == << out, queue, aborted, stream >>
fixedVars    == << tree, delay, appVars, timed, runs >>

\* controller.error(e), called by the stream when pull() rejects: it changes
\* the state of a readable stream only.
Errored(s) == IF s = "readable" THEN "errored" ELSE s

----------------------------------------------------------------------------
(* render(): one step of the async generator, driven by the for-await loop *)

\* A flattener that visits the elements of a sequence last to first.
RECURSIVE Reverse(_)
Reverse(c) == IF c = << >> THEN << >> ELSE Append(Reverse(Tail(c)), Head(c))

ExpandReversed(n) == Reverse(n.c)

\* What an array or a lazy sequence puts on the work list: its elements, in
\* order, before what follows it.
Expand(n) == n.c

\* A flattener that treats a thunk tagged as deferred like any other function:
\* it invokes it before handing it on.
RenderInvokesDeferred ==
    /\ pc = "next" /\ work # << >>
    /\ Head(work).k \in YieldKinds
    /\ cur' = Chunk(Head(work).k, Head(work).v, Head(work).b)
    /\ calls' = IF Head(work).k = "defer"
                THEN Append(calls, Chunk("defer", "", Head(work).b))
                ELSE calls
    /\ work' = Tail(work)
    /\ pc' = "body"
    /\ UNCHANGED << streamVars, boundaryVars, fixedVars >>

\* typeof child === 'string' (or any other value yielded verbatim): yield it.
RenderYield ==
    /\ pc = "next" /\ work # << >>
    /\ Head(work).k \in YieldKinds
    /\ cur' = Chunk(Head(work).k, Head(work).v, Head(work).b)
    /\ work' = Tail(work)
    /\ pc' = "body"
    /\ UNCHANGED << streamVars, boundaryVars, fixedVars, calls >>

\* The elements of a sequence with each thunk among them replaced by what it
\* returns, and the invocations that takes.
RECURSIVE Invoked(_)
Invoked(c) ==
    IF c = << >> THEN [c |-> << >>, calls |-> << >>]
    ELSE LET rest == Invoked(Tail(c))
         IN  IF Head(c).k = "thunk"
             THEN [c |-> << Head(c).c[1] >> \o rest.c,
                   calls |-> << Chunk("thunk", Head(c).v, 0) >> \o rest.calls]
             ELSE [c |-> << Head(c) >> \o rest.c, calls |-> rest.calls]

\* A flattener that invokes the thunks of a sequence when it enters the
\* sequence.
RenderEachEager ==
    /\ pc = "next" /\ work # << >>
    /\ Head(work).k \in { "seq", "iter" }
    /\ work' = Invoked(Expand(Head(work))).c \o Tail(work)
    /\ calls' = calls \o Invoked(Expand(Head(work))).calls
    /\ UNCHANGED << cur, pc, streamVars, boundaryVars, fixedVars >>

\* Array.isArray(child), an iterable or an async iterable: recurse into each
\* element in order.
RenderEach ==
    /\ pc = "next" /\ work # << >>
    /\ Head(work).k \in { "seq", "iter" }
    /\ work' = Expand(Head(work)) \o Tail(work)
    /\ UNCHANGED << cur, pc, streamVars, boundaryVars, fixedVars, calls >>

\* child = await child, for a promise that is not an Await call.
RenderAwait ==
    /\ pc = "next" /\ work # << >>
    /\ Head(work).k = "async"
    /\ work' = << Head(work).c[1] >> \o Tail(work)
    /\ UNCHANGED << cur, pc, streamVars, boundaryVars, fixedVars, calls >>

\* typeof child === 'function' without the Defer tag: render(child()).
RenderCall ==
    /\ pc = "next" /\ work # << >>
    /\ Head(work).k = "thunk"
    /\ calls' = Append(calls, Chunk("thunk", Head(work).v, 0))
    /\ work' = << Head(work).c[1] >> \o Tail(work)
    /\ UNCHANGED << cur, pc, streamVars, boundaryVars, fixedVars >>

\* !child && child !== 0: nothing is yielded.
RenderNothing ==
    /\ pc = "next" /\ work # << >>
    /\ Head(work).k = "nil"
    /\ work' = Tail(work)
    /\ UNCHANGED << cur, pc, streamVars, boundaryVars, fixedVars, calls >>

\* The function h() made of an Await element: render calls it, Await calls
\* createDeferred, which starts the min timer and the first race.
RenderAwaitCall ==
    /\ pc = "next" /\ work # << >>
    /\ Head(work).k = "await"
    /\ brace' = [brace EXCEPT ![Head(work).b] = "racing"]
    /\ calls' = Append(calls, Chunk("await", "", Head(work).b))
    /\ work' = << Pending(Head(work).b) >> \o Tail(work)
    /\ UNCHANGED << cur, pc, streamVars, fixedVars,
                    bind, wres, dphase, dcount, timedout, bindAtMin >>

\* child = await child, for the promise of an Await call: createDeferred has
\* returned (the raw text or the deferred thunk), or it has thrown and the
\* generator, the for-await loop and pull() reject.
RenderAwaitReturn ==
    /\ pc = "next" /\ work # << >>
    /\ Head(work).k = "pending"
    /\ brace[Head(work).b] \in { "fast", "min", "failed" }
    /\ IF brace[Head(work).b] = "failed"
       THEN /\ pc' = "error"
            /\ stream' = Errored(stream)
            /\ work' = << >>
       ELSE /\ work' = << AwaitResult(Head(work).b) >> \o Tail(work)
            /\ UNCHANGED << pc, stream >>
    /\ UNCHANGED << cur, out, queue, aborted, boundaryVars,
                    fixedVars, calls >>

\* The generator returns: the for-await loop ends and pull() goes on to
\* await Promise.all(queue).
RenderDone ==
    /\ pc = "next" /\ work = << >>
    /\ pc' = "wait"
    /\ UNCHANGED << work, cur, streamVars, boundaryVars, fixedVars, calls >>

----------------------------------------------------------------------------
(* renderToStream: the body of the for-await loop of pull() *)

\* An encoder that enqueues strings only and drops any other value.
EnqueueStrings(chunk) == IF chunk.t = "val" THEN out ELSE Append(out, chunk)

\* controller.enqueue(encoder.encode(value)) on a readable stream.
Enqueue(chunk) == Append(out, chunk)

\* if (aborted) break: the loop is left, which returns the generator.
PullBreak ==
    /\ pc = "body" /\ aborted
    /\ pc' = "wait"
    /\ cur' = NoValue
    /\ work' = << >>
    /\ UNCHANGED << streamVars, boundaryVars, fixedVars, calls >>

\* A loop that awaits the promise of the deferred thunk before it goes on.
PullDeferAwaits ==
    /\ pc = "body" /\ ~aborted
    /\ cur.t = "defer"
    /\ IF dphase[cur.b] = "none"
       THEN /\ dphase' = [dphase EXCEPT ![cur.b] = "racing"]
            /\ queue' = Append(queue, cur.b)
            /\ calls' = Append(calls, Chunk("defer", "", cur.b))
            /\ UNCHANGED << cur, pc >>
       ELSE /\ dphase[cur.b] \in { "flushed", "dropped", "rejected" }
            /\ cur' = NoValue
            /\ pc' = "next"
            /\ UNCHANGED << dphase, queue, calls >>
    /\ UNCHANGED << work, out, aborted, stream, fixedVars,
                    bind, wres, brace, dcount, timedout, bindAtMin >>

\* value[Defer]: the deferred thunk is invoked, which starts the max timer
\* and the second race, and its promise is pushed to queue; the loop goes on
\* without awaiting it.
PullDefer ==
    /\ pc = "body" /\ ~aborted
    /\ cur.t = "defer"
    /\ dphase' = [dphase EXCEPT ![cur.b] = "racing"]
    /\ queue' = Append(queue, cur.b)
    /\ calls' = Append(calls, Chunk("defer", "", cur.b))
    /\ cur' = NoValue
    /\ pc' = "next"
    /\ UNCHANGED << work, out, aborted, stream, fixedVars,
                    bind, wres, brace, dcount, timedout, bindAtMin >>

\* Any other value is encoded and enqueued; with options.delay the loop then
\* sleeps.  enqueue throws on a stream that is not readable.
PullEnqueue ==
    /\ pc = "body" /\ ~aborted
    /\ cur.t # "defer"
    /\ IF stream = "readable"
       THEN /\ out' = Enqueue(cur)
            /\ pc' = IF delay THEN "sleep" ELSE "next"
            /\ UNCHANGED work
       ELSE /\ pc' = "error"
            /\ work' = << >>
            /\ UNCHANGED out
    /\ cur' = NoValue
    /\ UNCHANGED << queue, aborted, stream, boundaryVars,
                    fixedVars, calls >>

\* await sleep(options.delay) is over.
PullWake ==
    /\ pc = "sleep"
    /\ pc' = "next"
    /\ UNCHANGED << work, cur, streamVars, boundaryVars, fixedVars, calls >>

----------------------------------------------------------------------------
(* renderToStream: await Promise.all(queue); controller.close() *)

InQueue(b) == \E i \in 1 .. Len(queue) : queue[i] = b

\* A pull() that closes the stream without awaiting queue.
NothingAwaited == TRUE

\* Promise.all(queue) is fulfilled: every promise of queue is.
AllFulfilled ==
    \A b \in Boundaries : InQueue(b) => dphase[b] \in { "flushed", "dropped" }

\* Promise.all(queue) resolves and controller.close() is called, which throws
\* on a stream that is not readable any more.
PullClose ==
    /\ pc = "wait"
    /\ AllFulfilled
    /\ IF stream = "readable"
       THEN pc' = "done" /\ stream' = "closed"
       ELSE pc' = "error" /\ UNCHANGED stream
    /\ UNCHANGED << work, cur, out, queue, aborted, boundaryVars,
                    fixedVars, calls >>

\* Promise.all(queue) rejects as soon as one promise of queue has: pull()
\* rejects and the stream errors the controller.
PullReject ==
    /\ pc = "wait"
    /\ \E b \in Boundaries : InQueue(b) /\ dphase[b] = "rejected"
    /\ pc' = "error"
    /\ stream' = Errored(stream)
    /\ UNCHANGED << work, cur, out, queue, aborted, boundaryVars,
                    fixedVars, calls >>

----------------------------------------------------------------------------
(* The bound computation, the wrapper and the two timers of a boundary *)

\* props.bind settles; it exists since the tree was built.
BindSettle(b, r) ==
    /\ b \in BoundariesOf(tree)
    /\ bind[b] = "pending"
    /\ bind' = [bind EXCEPT ![b] = r]
    /\ UNCHANGED << work, cur, pc, streamVars, fixedVars, calls,
                    wres, brace, dphase, dcount, timedout, bindAtMin >>

\* wrapper(props.bind) settles: the then or the catch renderer has rendered
\* its content to a string.  It decides the first race when it comes before
\* the min timer: createDeferred returns result.raw, or throws when the
\* wrapper rejected.
WrapperSettle(b, o) ==
    /\ brace[b] # "new"
    /\ bind[b] # "pending"
    /\ wres[b] = "pending"
    /\ o \in WrapperOutcomes(b)
    /\ wres' = [wres EXCEPT ![b] = o]
    /\ brace' = [brace EXCEPT ![b] =
                   IF brace[b] # "racing" THEN brace[b]
                   ELSE IF o = "rejected" THEN "failed" ELSE "fast"]
    /\ UNCHANGED << work, cur, pc, streamVars, fixedVars, calls,
                    bind, dphase, dcount, timedout, bindAtMin >>

\* sleep(min) is over before the wrapper has settled: the first race resolves
\* to Min and createDeferred returns the deferred thunk.
MinTimer(b) ==
    /\ brace[b] = "racing"
    /\ brace' = [brace EXCEPT ![b] = "min"]
    /\ bindAtMin' = [bindAtMin EXCEPT ![b] = bind[b]]
    /\ UNCHANGED << work, cur, pc, streamVars, fixedVars, calls,
                    bind, wres, dphase, dcount, timedout >>

\* sleep(max) is over before the wrapper has settled: the second race rejects
\* with a TimeoutError, and the catch handler awaits the wrapper.
MaxTimer(b) ==
    /\ dphase[b] = "racing"
    /\ wres[b] = "pending"
    /\ dphase' = [dphase EXCEPT ![b] = "timedout"]
    /\ timedout' = [timedout EXCEPT ![b] = TRUE]
    /\ UNCHANGED << work, cur, pc, streamVars, fixedVars, calls,
                    bind, wres, brace, dcount, bindAtMin >>

----------------------------------------------------------------------------
(* renderToStream: the reaction pushed to queue for one deferred promise *)

\* The deferred promise resolves to a script and the reaction starts:
\* if (aborted) return, else the script is flattened chunk by chunk.
DeferredResolve(b) ==
    /\ dphase[b] \in { "racing", "timedout" }
    /\ wres[b] \in { "then", "catch" }
    /\ dphase' = [dphase EXCEPT ![b] = IF aborted THEN "dropped" ELSE "render"]
    /\ UNCHANGED << work, cur, pc, streamVars, fixedVars, calls,
                    bind, wres, brace, dcount, timedout, bindAtMin >>

\* The deferred promise rejects (the wrapper rejected): so does the promise
\* in queue.
DeferredReject(b) ==
    /\ dphase[b] \in { "racing", "timedout" }
    /\ wres[b] = "rejected"
    /\ dphase' = [dphase EXCEPT ![b] = "rejected"]
    /\ UNCHANGED << work, cur, pc, streamVars, fixedVars, calls,
                    bind, wres, brace, dcount, timedout, bindAtMin >>

\* A reaction that enqueues each chunk of the script as it arrives.
PayloadChunkEnqueues(b) ==
    /\ dphase[b] = "render"
    /\ dcount[b] < ScriptChunks
    /\ IF aborted
       THEN dphase' = [dphase EXCEPT ![b] = "dropped"] /\ UNCHANGED << dcount, out >>
       ELSE /\ dcount' = [dcount EXCEPT ![b] = @ + 1]
            /\ out' = Enqueue(DeferredScript(b))
            /\ UNCHANGED dphase
    /\ UNCHANGED << work, cur, pc, queue, aborted, stream, fixedVars, calls,
                    bind, wres, brace, timedout, bindAtMin >>

\* for await (const chunk of render(res)): one chunk arrives;
\* if (aborted) return, else text += chunk.
PayloadChunk(b) ==
    /\ dphase[b] = "render"
    /\ dcount[b] < ScriptChunks
    /\ IF aborted
       THEN dphase' = [dphase EXCEPT ![b] = "dropped"] /\ UNCHANGED dcount
       ELSE dcount' = [dcount EXCEPT ![b] = @ + 1] /\ UNCHANGED dphase
    /\ UNCHANGED << work, cur, pc, streamVars, fixedVars, calls,
                    bind, wres, brace, timedout, bindAtMin >>

\* The generator of the script is done, the loop ends, and
\* controller.enqueue(encoder.encode(text)) is called: the whole script as
\* one chunk.  enqueue throws on a stream that is not readable.
PayloadFlush(b) ==
    /\ dphase[b] = "render"
    /\ dcount[b] = ScriptChunks
    /\ IF stream = "readable"
       THEN /\ out' = Enqueue(DeferredScript(b))
            /\ dphase' = [dphase EXCEPT ![b] = "flushed"]
       ELSE /\ dphase' = [dphase EXCEPT ![b] = "rejected"]
            /\ UNCHANGED out
    /\ UNCHANGED << work, cur, pc, queue, aborted, stream,
                    fixedVars, calls, bind, wres, brace, dcount, timedout,
                    bindAtMin >>

----------------------------------------------------------------------------
(* Cancellation *)

\* The consumer cancels the stream: the stream is closed and the cancel()
\* callback of the underlying source sets aborted.
Cancel ==
    /\ stream = "readable"
    /\ stream' = "closed"
    /\ aborted' = TRUE
    /\ UNCHANGED << work, cur, pc, out, queue, boundaryVars, fixedVars, calls >>

\* The abort listener of options.signal: aborted = true; stream.cancel();
\* the listener removes itself.  stream.cancel() is refused when a reader
\* holds the stream (the body of a Response being read), and closes a
\* readable stream otherwise.  Once aborted is set the listener changes
\* nothing any more.
SignalAbort(locked) ==
    /\ ~aborted
    /\ aborted' = TRUE
    /\ stream' = IF ~locked /\ stream = "readable" THEN "closed" ELSE stream
    /\ UNCHANGED << work, cur, pc, out, queue, boundaryVars, fixedVars, calls >>

----------------------------------------------------------------------------

Render ==
    \/ RenderYield
    \/ RenderEach
    \/ RenderAwait
    \/ RenderCall
    \/ RenderNothing
    \/ RenderAwaitCall
    \/ RenderAwaitReturn
    \/ RenderDone

Pull ==
    \/ PullBreak
    \/ PullDefer
    \/ PullEnqueue
    \/ PullWake
    \/ PullClose
    \/ PullReject

Boundary(b) ==
    \/ WrapperSettle(b, "then")
    \/ WrapperSettle(b, "catch")
    \/ WrapperSettle(b, "rejected")
    \/ MinTimer(b)
    \/ MaxTimer(b)
    \/ DeferredResolve(b)
    \/ DeferredReject(b)
    \/ PayloadChunk(b)
    \/ PayloadFlush(b)

Settle == \E b \in Boundaries : \E r \in { "resolved", "rejected" } : BindSettle(b, r)

Next ==
    \/ Render
    \/ Pull
    \/ \E b \in Boundaries : Boundary(b)
    \/ Settle
    \/ Cancel
    \/ \E locked \in BOOLEAN : SignalAbort(locked)

Spec == Init /\ [][Next]_vars

\* The responses whose content tree has thunks.
FlattenInit == Init /\ tree \in { PlainTree, NestedBoundary }

FlattenSpec == FlattenInit /\ [][Next]_vars

\* The event loop runs every callback that is ready: the generator and the
\* loop of pull(), timers, promise reactions.  Nothing makes props.bind
\* settle, and nothing makes a consumer cancel.
FairSpec ==
    /\ Spec
    /\ WF_vars(Render)
    /\ WF_vars(Pull)
    /\ \A b \in Boundaries : WF_vars(Boundary(b))

----------------------------------------------------------------------------
(* App: construction, listen, #handleRequest, render, #notFoundResponse *)

\* What the dispatch of a request never changes: the state of a response
\* stream.
responseVars == << tree, delay, work, cur, pc, streamVars, boundaryVars, calls,
                  timed, runs >>

\* The constructor's reaction to #createManifest(): ready(), then
\* this.#manifest = manifest, in one callback.
ManifestResolve ==
    /\ init = "constructing"
    /\ CreateManifest(fs).ok
    /\ init' = "ready"
    /\ manifest' = [installed |-> TRUE, routes |-> CreateManifest(fs).routes]
    /\ UNCHANGED << fs, listening, req, log, responseVars >>

\* A constructor that calls ready() when #createManifest() has rejected.
ManifestRejectOpens ==
    /\ init = "constructing"
    /\ ~CreateManifest(fs).ok
    /\ init' = "ready"
    /\ UNCHANGED << fs, manifest, listening, req, log, responseVars >>

\* #createManifest() rejects: the reaction never runs, #init stays pending.
ManifestReject ==
    /\ init = "constructing"
    /\ ~CreateManifest(fs).ok
    /\ init' = "failed"
    /\ UNCHANGED << fs, manifest, listening, req, log, responseVars >>

\* listen() is called: await this.#init.
Listen ==
    /\ listening = "no"
    /\ listening' = "awaiting"
    /\ UNCHANGED << fs, manifest, init, req, log, responseVars >>

\* #init is resolved: serve(this.#handleRequest) is called.
ListenServe ==
    /\ listening = "awaiting"
    /\ init = "ready"
    /\ listening' = "yes"
    /\ UNCHANGED << fs, manifest, init, req, log, responseVars >>

\* The caller of request r gets an error.
Thrown(r, e) == [r EXCEPT !.pc = "done", !.outcome = "threw", !.error = e]

\* The caller of request r gets a response.
Responded(r, status, body, headers) ==
    [r EXCEPT !.pc = "done", !.outcome = "response", !.status = status,
              !.body = body, !.headers = headers]

\* The status of the responses of #notFoundResponse.
NotFoundStatus == 404

\* A dispatcher whose responses all keep the status of new Response().
StatusAlwaysOk(notFound) == IF notFound THEN 200 ELSE 200

\* The status of the response of a request: that of new Response() from
\* render, 404 from #notFoundResponse.
ResponseStatus(notFound) == IF notFound THEN NotFoundStatus ELSE 200

\* A dispatcher that takes whatever the module exports.
AnyExport(d) == TRUE

\* typeof Component === 'function'.
IsFunction(d) == d = "function"

\* What a module can have as its default export.
DefaultExports == { "function", "object", "undefined" }

\* One call of #match, as the log keeps it.
Resolution(r, path, result) ==
    [n |-> r.n, path |-> path, installed |-> manifest.installed, result |-> result]

\* render(request) up to its first await: #match on the pathname of the
\* request, which throws while #manifest is not assigned; without a route,
\* #notFoundResponse and its #match on /404, and the fixed response when that
\* has no route either; with a route, the import of its module.
Dispatch(r) ==
    IF ~manifest.installed
    THEN /\ req' = Thrown(r, "TypeError")
         /\ log' = Append(log, Resolution(r, r.path, NoMatch))
         /\ UNCHANGED manifest
    ELSE
      LET first  == Match(manifest.routes, r.path)
          routes == RoutesAfterMatch(manifest.routes)
          second == Match(routes, NotFoundPath)
      IN  IF first.found
          THEN /\ req' = [r EXCEPT !.pc = "import", !.route = first.route,
                                   !.params = first.params]
               /\ log' = Append(log, Resolution(r, r.path, first))
               /\ manifest' = [manifest EXCEPT !.routes = routes]
          ELSE /\ req' = IF second.found
                         THEN [r EXCEPT !.pc = "import", !.notFound = TRUE,
                                        !.route = second.route,
                                        !.params = second.params]
                         ELSE Responded([r EXCEPT !.notFound = TRUE],
                                        ResponseStatus(TRUE), "fixed",
                                        { "text/html" })
               /\ log' = log \o << Resolution(r, r.path, first),
                                   Resolution(r, NotFoundPath, second) >>
               /\ manifest' = [manifest EXCEPT !.routes = RoutesAfterMatch(routes)]

\* serve() hands a request to #handleRequest: await this.#isAssetRequest.
HandleRequest(path) ==
    /\ listening = "yes"
    /\ req.pc \in { "idle", "done" }
    /\ req.n < MaxRequests
    /\ req' = [NewRequest(req.n + 1, "listen", path) EXCEPT !.pc = "asset"]
    /\ UNCHANGED << fs, manifest, init, listening, log, responseVars >>

\* #isAssetRequest has settled: the file of public/ is fetched, or
\* this.render(request) is called.
AssetSettle(found) ==
    /\ req.pc = "asset"
    /\ IF found
       THEN /\ req' = Responded(req, ResponseStatus(FALSE), "asset", { })
            /\ UNCHANGED << manifest, log >>
       ELSE Dispatch(req)
    /\ UNCHANGED << fs, init, listening, responseVars >>

\* The public render(request) is called, by anyone and at any time.
AppRender(path) ==
    /\ req.pc \in { "idle", "done" }
    /\ req.n < MaxRequests
    /\ Dispatch(NewRequest(req.n + 1, "render", path))
    /\ UNCHANGED << fs, init, listening, responseVars >>

\* await import(route.fileURL) has settled: it failed, or the default export
\* d is checked.  In #notFoundResponse Component(context) is then called and
\* its content streamed with status 404; in render it is called and awaited.
ImportSettle(d, ok) ==
    /\ req.pc = "import"
    /\ req' = CASE d = "failed" -> Thrown(req, "ImportFailed")
                [] d # "failed" /\ ~IsFunction(d) ->
                     Thrown([req EXCEPT !.export = d], "NoDefaultExport")
                [] d # "failed" /\ IsFunction(d) /\ req.notFound ->
                     IF ok
                     THEN Responded([req EXCEPT !.export = d, !.streams = @ + 1],
                                    ResponseStatus(TRUE), "stream", { "text/html" })
                     ELSE Thrown([req EXCEPT !.export = d], "ComponentThrew")
                [] OTHER -> [req EXCEPT !.export = d, !.pc = "component"]
    /\ UNCHANGED << fs, manifest, init, listening, log, responseVars >>

\* await Component(context) has settled: the content is streamed in a
\* response made from new Response(), with Content-Type for a page.
ComponentSettle(ok) ==
    /\ req.pc = "component"
    /\ req' = IF ok
              THEN Responded([req EXCEPT !.streams = @ + 1],
                             ResponseStatus(FALSE), "stream",
                             IF req.route.type = "page" THEN { "text/html" } ELSE { })
              ELSE Thrown(req, "ComponentThrew")
    /\ UNCHANGED << fs, manifest, init, listening, log, responseVars >>

AppInitial ==
    /\ StreamInit
    /\ tree = PlainTree /\ ~delay
    /\ \E dir \in PagesDirs : AppInit(dir)
    /\ timed = NoAwait /\ runs = NoRuns

AppNext ==
    \/ ManifestResolve
    \/ ManifestReject
    \/ Listen
    \/ ListenServe
    \/ \E path \in RequestPaths : HandleRequest(path)
    \/ \E found \in BOOLEAN : AssetSettle(found)
    \/ \E path \in RequestPaths : AppRender(path)
    \/ \E d \in DefaultExports \cup { "failed" } : \E ok \in BOOLEAN : ImportSettle(d, ok)
    \/ \E ok \in BOOLEAN : ComponentSettle(ok)

\* One application from its construction on, and the requests made to it one
\* after the other.
AppSpec == AppInitial /\ [][AppNext]_vars

----------------------------------------------------------------------------
(* AwaitSpec: Await, createDeferred and the deferred thunk, with a clock *)

\* What a step of one Await call never changes.
untimedVars ==
    << tree, delay, work, cur, pc, streamVars, boundaryVars, calls, appVars, runs >>

\* A min bound taken from the props of the boundary.
MinOfProps(props) == IF props.hasMin THEN props.min ELSE MinDefault

\* The min bound of createDeferred: Await passes the literal 20.
MinOf(props) == MinDefault

\* The max bound of createDeferred: props.timeout ?? 5000.
MaxOf(props) == IF props.hasTimeout THEN props.timeout ELSE MaxDefault

\* Await(props) calls createDeferred(wrapper(props.bind), { min, max }), which
\* starts sleep(min) and the first race.
TimedAwait ==
    /\ timed.phase = "new"
    /\ timed' = [timed EXCEPT !.phase = "first",
                              !.min = MinOf(timed.props),
                              !.max = MaxOf(timed.props),
                              !.minAt = timed.now + MinOf(timed.props)]
    /\ UNCHANGED untimedVars

\* No timer of the call is due before moment t.
NoTimerBefore(t) ==
    /\ timed.phase = "first" => timed.minAt >= t
    /\ timed.phase = "second" => timed.maxAt >= t

\* wrapper(props.bind) settles: in the first race createDeferred returns
\* result.raw and Await returns it; after the deferred thunk was invoked
\* the deferred promise resolves to the script.
TimedSettle ==
    /\ timed.phase \in { "first", "second", "timedout" }
    /\ timed.props.settles /\ ~timed.settled
    /\ timed.props.at >= timed.now
    /\ NoTimerBefore(timed.props.at)
    /\ timed' = [timed EXCEPT !.now = timed.props.at,
                              !.settled = TRUE,
                              !.phase = IF timed.phase = "first" THEN "inline"
                                        ELSE "script"]
    /\ UNCHANGED untimedVars

\* wrapper(props.bind) does not settle before moment t.
NoSettleBefore(t) ==
    timed.settled \/ ~timed.props.settles \/ timed.props.at >= t

\* sleep(min) is over first: the race resolves to Min and Await returns
\* [placeholder({ id }), deferred].
TimedMin ==
    /\ timed.phase = "first"
    /\ NoSettleBefore(timed.minAt)
    /\ timed' = [timed EXCEPT !.now = timed.minAt, !.phase = "deferred"]
    /\ UNCHANGED untimedVars

\* The loop of pull() invokes the deferred thunk: sleep(max) and the second
\* race start.
TimedInvoke ==
    /\ timed.phase = "deferred"
    /\ timed' = [timed EXCEPT !.phase = "second",
                              !.maxAt = timed.now + timed.max]
    /\ UNCHANGED untimedVars

\* sleep(max) is over first: the second race rejects with a TimeoutError and
\* the catch handler awaits the wrapper.
TimedMax ==
    /\ timed.phase = "second"
    /\ NoSettleBefore(timed.maxAt)
    /\ timed' = [timed EXCEPT !.now = timed.maxAt, !.phase = "timedout"]
    /\ UNCHANGED untimedVars

AwaitInitial ==
    /\ StreamInit
    /\ tree = OneBoundary /\ ~delay
    /\ AppInit(NoPages)
    /\ runs = NoRuns
    /\ \E props \in AwaitProps : timed = NewAwait(props)

AwaitNext ==
    \/ TimedAwait
    \/ TimedSettle
    \/ TimedMin
    \/ TimedInvoke
    \/ TimedMax

\* One call of Await from the moment its element is rendered.
AwaitSpec == AwaitInitial /\ [][AwaitNext]_vars

----------------------------------------------------------------------------
(* RunsSpec: two calls of renderToStream, interleaved *)

\* What a step of a run never changes.
unrunVars ==
    << tree, delay, work, cur, pc, streamVars, boundaryVars, calls, appVars,
       timed >>

\* for await (const value of render(Component)): the next value, or the end
\* of the loop.
RunNext(i) ==
    /\ runs[i].pc = "next"
    /\ runs' = [runs EXCEPT ![i] =
                  IF runs[i].work = << >> THEN [@ EXCEPT !.pc = "wait"]
                  ELSE [@ EXCEPT !.cur = Head(runs[i].work),
                                 !.work = Tail(runs[i].work),
                                 !.pc = "body"]]
    /\ UNCHANGED unrunVars

\* The body of the loop of run i, on the aborted, queue and controller of
\* its own closure: break when aborted; value() and queue.push for a
\* deferred thunk; controller.enqueue for anything else.
RunBody(i) ==
    /\ runs[i].pc = "body"
    /\ runs' = [runs EXCEPT ![i] =
                  IF runs[i].aborted
                  THEN [@ EXCEPT !.pc = "wait", !.cur = NoValue, !.work = << >>]
                  ELSE IF runs[i].cur.t = "defer"
                  THEN [@ EXCEPT !.queue = Append(@, runs[i].cur.b),
                                 !.deferred = "racing",
                                 !.cur = NoValue, !.pc = "next"]
                  ELSE IF runs[i].stream = "readable"
                  THEN [@ EXCEPT !.out = Append(@, runs[i].cur),
                                 !.cur = NoValue, !.pc = "next"]
                  ELSE [@ EXCEPT !.cur = NoValue, !.work = << >>, !.pc = "error"]]
    /\ UNCHANGED unrunVars

\* The deferred promise of run i resolves and the reaction pushed to queue
\* runs: it returns when aborted, and enqueues the script otherwise.
RunPayload(i) ==
    /\ runs[i].deferred = "racing"
    /\ runs' = [runs EXCEPT ![i] =
                  IF runs[i].aborted THEN [@ EXCEPT !.deferred = "dropped"]
                  ELSE IF runs[i].stream = "readable"
                  THEN [@ EXCEPT !.out = Append(@, Chunk("script", "then", i)),
                                 !.deferred = "flushed"]
                  ELSE [@ EXCEPT !.deferred = "rejected"]]
    /\ UNCHANGED unrunVars

\* await Promise.all(queue) is over; controller.close().
RunClose(i) ==
    /\ runs[i].pc = "wait"
    /\ runs[i].deferred \in { "none", "flushed", "dropped" }
    /\ runs' = [runs EXCEPT ![i] =
                  IF runs[i].stream = "readable"
                  THEN [@ EXCEPT !.pc = "done", !.stream = "closed"]
                  ELSE [@ EXCEPT !.pc = "error"]]
    /\ UNCHANGED unrunVars

\* An abort that sets the flag of every run.
RunCancelAll(i) ==
    /\ runs[i].stream = "readable"
    /\ runs' = [j \in Runs |->
                  IF j = i THEN [runs[j] EXCEPT !.aborted = TRUE, !.stream = "closed"]
                  ELSE [runs[j] EXCEPT !.aborted = TRUE]]
    /\ UNCHANGED unrunVars

\* The consumer of run i cancels its stream: cancel() sets the aborted of
\* the closure of run i.
RunCancel(i) ==
    /\ runs[i].stream = "readable"
    /\ runs' = [runs EXCEPT ![i] = [@ EXCEPT !.aborted = TRUE, !.stream = "closed"]]
    /\ UNCHANGED unrunVars

\* options.signal of run i aborts: the listener sets aborted and calls
\* stream.cancel(), which is refused on a locked stream.
RunSignal(i, locked) ==
    /\ ~runs[i].aborted
    /\ runs[i].pc # "idle"
    /\ runs' = [runs EXCEPT ![i] =
                  [@ EXCEPT !.aborted = TRUE,
                            !.stream = IF ~locked /\ @ = "readable" THEN "closed"
                                       ELSE @]]
    /\ UNCHANGED unrunVars

RunsInitial ==
    /\ StreamInit
    /\ tree = PlainTree /\ ~delay
    /\ AppInit(NoPages)
    /\ timed = NoAwait
    /\ runs = [i \in Runs |-> NewRun(i)]

RunsNext ==
    \E i \in Runs :
        \/ RunNext(i)
        \/ RunBody(i)
        \/ RunPayload(i)
        \/ RunClose(i)
        \/ RunCancel(i)
        \/ \E locked \in BOOLEAN : RunSignal(i, locked)

\* Two responses from the moment both calls of renderToStream have returned.
RunsSpec == RunsInitial /\ [][RunsNext]_vars

----------------------------------------------------------------------------
(* Vocabulary of the properties *)

IsPrefix(s, t) == Len(s) <= Len(t) /\ \A i \in 1 .. Len(s) : s[i] = t[i]

\* A chunk of the main sequence, as opposed to a replacement script.
IsMain(c) == c.t # "script"

IsText(c) == c.t # "defer"

\* The text chunks of the tree in document order, as render() yields them.
Document == SelectSeq(render(tree), IsText)

\* The first place of chunk c in the sequence doc, 0 when it is not in it.
Pos(doc, c) ==
    LET S == { i \in 1 .. Len(doc) : doc[i] = c }
    IN  IF S = { } THEN 0 ELSE CHOOSE i \in S : \A j \in S : i <= j

Has(c) == \E i \in 1 .. Len(out) : out[i] = c

Count(c) == Cardinality({ i \in 1 .. Len(out) : out[i] = c })

\* No Await call of the response has returned a deferred thunk.
NoDeferredMarker == \A b \in Boundaries : brace[b] # "min"

----------------------------------------------------------------------------
\* C1: for a content tree without deferred marker, a run of renderToStream
\* that is not cancelled enqueues exactly the chunks render() yields, each
\* once and in the same order, and then closes the stream; at every moment
\* before, what is enqueued is a prefix of that sequence.
C1_StreamIsDocument ==
    NoDeferredMarker =>
        LET doc == Document
        IN  /\ IsPrefix(out, doc)
            /\ (pc = "done" /\ ~aborted) => (out = doc /\ stream = "closed")

C1_Witness ==
    /\ tree = PlainTree
    /\ pc = "done" /\ ~aborted /\ stream = "closed"
    /\ Len(out) = 6
    /\ out = render(tree)

\* C2: the chunks of the main sequence are enqueued in document order, with
\* any number of deferred promises outstanding or already flushed: of two
\* main chunks of the output, the earlier one is earlier in the document.
C2_MainInDocumentOrder ==
    LET doc  == Document
        main == SelectSeq(out, IsMain)
        at   == [i \in 1 .. Len(main) |-> Pos(doc, main[i])]
    IN  \A i \in 1 .. Len(main) :
            /\ at[i] >= 1
            /\ \A j \in 1 .. i - 1 : at[j] < at[i]

C2_Witness ==
    /\ dphase[2] = "racing"
    /\ \E i, j, k \in 1 .. Len(out) :
          /\ i < j /\ j < k
          /\ IsMain(out[i]) /\ out[j].t = "script" /\ IsMain(out[k])
          /\ out[k].t = "text"

\* The chunks of one boundary.
PlaceholderOpen(b)  == Chunk("placeholder", "open", b)
PlaceholderClose(b) == Chunk("placeholder", "close", b)
Raw(b)              == Chunk("raw", wres[b], b)

\* Chunk c is in the output, and the main chunks enqueued up to it are the
\* chunks of the document up to it: c is at its document position.
AtDocumentPosition(c) ==
    LET doc  == Document
        main == SelectSeq(out, IsMain)
        i    == Pos(main, c)
    IN  /\ i >= 1
        /\ i <= Len(doc)
        /\ SubSeq(main, 1, i) = SubSeq(doc, 1, i)

\* Chunk c is enqueued before chunk d.
Before(c, d) ==
    \E i, j \in 1 .. Len(out) : i < j /\ out[i] = c /\ out[j] = d

\* C3: controller.close() succeeds only when every promise pushed to queue
\* has settled, each of them having enqueued its replacement script unless
\* the run was cancelled, and nothing is enqueued after the close.
C3_CloseAfterAllPayloads ==
    /\ [](pc = "done" =>
            \A b \in Boundaries : InQueue(b) =>
                /\ dphase[b] \in { "flushed", "dropped" }
                /\ dphase[b] = "dropped" => aborted
                /\ dphase[b] = "flushed" => Has(DeferredScript(b)))
    /\ [][pc = "done" => out' = out]_vars

C3_Witness ==
    /\ pc = "done" /\ ~aborted
    /\ queue = << 1, 2 >>
    /\ Has(DeferredScript(1)) /\ Has(DeferredScript(2))

\* C4 as stated: when props.bind has settled before the min timer fires,
\* createDeferred returns the raw content and not the deferred thunk: the
\* min timer wins the first race only while props.bind is pending.
C4_BindBeforeMinIsInline ==
    \A b \in Boundaries : brace[b] = "min" => bindAtMin[b] = "pending"

\* C4, amended: when the wrapper of props.bind (props.bind followed by the
\* rendering of the then or catch content) resolves before the min timer
\* fires, createDeferred returns the raw content and no deferred thunk: no
\* placeholder and no script of the boundary is ever enqueued, nothing of it
\* is pushed to queue, and the raw content is enqueued once, at the
\* boundary's document position, by the end of a run that is not cancelled.
C4_FastPathInline ==
    \A b \in Boundaries : brace[b] = "fast" =>
        /\ wres[b] \in { "then", "catch" }
        /\ dphase[b] = "none" /\ ~InQueue(b)
        /\ \A i \in 1 .. Len(out) :
              out[i].b = b => out[i] = Raw(b)
        /\ Count(Raw(b)) <= 1
        /\ Has(Raw(b)) => AtDocumentPosition(Raw(b))
        /\ (pc = "done" /\ ~aborted) => Has(Raw(b))

C4_Witness ==
    /\ tree = OneBoundary
    /\ brace[1] = "fast" /\ bind[1] = "resolved"
    /\ pc = "done"
    /\ out = << Chunk("text", "h", 0), Chunk("raw", "then", 1), Chunk("text", "t", 0) >>

\* C5: a boundary whose deferred thunk has been invoked has its placeholder
\* in the output, whole and at its document position; its replacement script
\* is enqueued after the placeholder, and carries the identifier of the
\* placeholder; the script is in the output when pull() has closed the
\* stream of a run that is not cancelled.
C5_PlaceholderThenPayload ==
    \A b \in Boundaries :
        /\ dphase[b] # "none" =>
              /\ brace[b] = "min"
              /\ Before(PlaceholderOpen(b), PlaceholderClose(b))
              /\ AtDocumentPosition(PlaceholderClose(b))
              /\ (pc = "done" /\ ~aborted) =>
                    Before(PlaceholderClose(b), DeferredScript(b))
        /\ \A j \in 1 .. Len(out) :
              (out[j].t = "script" /\ out[j].b = b) =>
                  /\ dphase[b] = "flushed"
                  /\ \E i \in 1 .. j - 1 : out[i] = PlaceholderClose(b)

C5_Witness ==
    /\ bindAtMin[1] = "pending" /\ ~timedout[1] /\ bind[1] = "resolved"
    /\ Before(PlaceholderClose(1), Chunk("script", "then", 1))

\* C6: when the max timer has fired before the wrapper settled, the
\* replacement script of the boundary is the catch renderer's content.
C6_TimeoutRendersError ==
    \A i \in 1 .. Len(out) :
        (out[i].t = "script" /\ timedout[out[i].b]) => out[i].v = "catch"

\* C7: every response stream that is not cancelled is eventually closed (it
\* stops being open, at the least), also when a bound computation never
\* settles.
C7_EventuallyClosed == <>(stream # "readable" \/ aborted)

\* C8: a failure local to one boundary never errors the response stream.
C8_StreamNeverErrors == stream # "errored"

\* C9 as stated: a boundary whose props.bind rejected before the min timer
\* fired renders inline, without placeholder.
C9_RejectionBeforeMinIsInline ==
    \A b \in Boundaries :
        (bind[b] = "rejected" /\ brace[b] = "min") => bindAtMin[b] # "rejected"

\* C9, amended: when props.bind rejects, the then renderer's content is never
\* rendered for the boundary; what the boundary renders is the catch
\* renderer's content, inline when the wrapper has rendered it before the min
\* timer fires, and otherwise as the placeholder followed by a replacement
\* script with the boundary's identifier.
C9_RejectionRendersCatch ==
    \A b \in Boundaries : bind[b] = "rejected" =>
        /\ wres[b] # "then"
        /\ \A i \in 1 .. Len(out) :
              (out[i].b = b /\ out[i].t \in { "raw", "script" }) => out[i].v = "catch"
        /\ brace[b] = "fast" =>
              /\ wres[b] = "catch"
              /\ \A i \in 1 .. Len(out) : out[i].b = b => out[i].t = "raw"
        /\ brace[b] = "min" =>
              /\ \A i \in 1 .. Len(out) : out[i].b = b => out[i].t # "raw"
              /\ Has(Chunk("script", "catch", b)) =>
                    Before(PlaceholderClose(b), Chunk("script", "catch", b))

C9_Witness ==
    /\ bind = << "rejected", "rejected" >>
    /\ bindAtMin[2] = "pending"
    /\ Has(Chunk("raw", "catch", 1))
    /\ Before(PlaceholderClose(2), Chunk("script", "catch", 2))

\* C10: once aborted is set nothing is enqueued any more.
C10_NoEnqueueOnceAborted == [][aborted => out' = out]_vars

\* C11: once aborted is set, the run of pull() eventually terminates (the
\* loop is left and pull() returns or throws), whatever the state of the
\* boundaries that were outstanding when it was set.
C11_AbortTerminates == aborted ~> pc \in { "done", "error" }

\* The invocations of the deferred thunk of boundary b so far.
Invocations(b) ==
    Cardinality({ i \in 1 .. Len(calls) : calls[i] = Chunk("defer", "", b) })

\* C19: render() never invokes a thunk tagged as deferred: when it meets one
\* it yields it as it is, invoking nothing; the thunk is invoked by the body
\* of the loop of pull() only, in the step that pushes its promise to queue,
\* and at most once.
C19_DeferredInvokedByEncoderOnly ==
    /\ [](\A b \in Boundaries :
            /\ Invocations(b) <= 1
            /\ Invocations(b) = 1 <=> InQueue(b))
    /\ [][/\ \A b \in Boundaries :
                Invocations(b)' # Invocations(b) =>
                    /\ pc = "body" /\ cur = Chunk("defer", "", b)
                    /\ queue' = Append(queue, b)
          /\ (pc = "next" /\ work # << >> /\ Head(work).k = "defer"
                /\ work' # work) =>
                    /\ cur' = Chunk("defer", "", Head(work).b)
                    /\ calls' = calls /\ queue' = queue]_vars

C19_Witness ==
    /\ tree = NestedBoundary
    /\ calls = << Chunk("thunk", "g", 0), Chunk("await", "", 1),
                  Chunk("defer", "", 1) >>
    /\ queue = << 1 >>
    /\ pc = "done"

----------------------------------------------------------------------------
(* Vocabulary of the properties of route resolution *)

\* The places in the manifest of the routes that pass the depth filter and
\* the pattern test for the request pathname path.
Candidates(path) ==
    { k \in 1 .. Len(manifest.routes) :
        /\ RequestDepth(path) <= manifest.routes[k].depth
        /\ Exec(Parse(manifest.routes[k].pattern), StripIndex(path)).ok }

\* A route without named capture and without catch-all.
IsStatic(r) == \A j \in 1 .. Len(r.pattern) : r.pattern[j] \notin { ":", "*" }

\* The calls of #match made for request n, in order.
ResolutionsOf(n) ==
    LET Mine(e) == e.n = n
    IN  SelectSeq(log, Mine)

\* C12: whenever exactly one route of the manifest passes the depth filter
\* and the pattern test for a request pathname, #match returns that route,
\* with the groups that the route's own pattern extracts from the pathname.
C12_SingleMatchReturned ==
    \A i \in 1 .. Len(log) :
        (log[i].installed /\ Cardinality(Candidates(log[i].path)) = 1) =>
            \E k \in Candidates(log[i].path) :
                /\ log[i].result.found
                /\ log[i].result.route = manifest.routes[k]
                /\ log[i].result.params =
                      Exec(Parse(manifest.routes[k].pattern),
                           StripIndex(log[i].path)).groups

C12_Witness ==
    /\ fs = << AboutPage, NamedPage, CatchAllPage >>
    /\ \E i \in 1 .. Len(log) :
          /\ log[i].path = << "/", "a", "/", "b" >>
          /\ Candidates(log[i].path) = { 3 }
          /\ log[i].result.found
          /\ log[i].result.route.fileURL = << "/" >> \o CatchAllPage.name
          /\ log[i].result.params = { << "rest", << "a", "/", "b" >> >> }

\* C13: when an all-static route and a route with a capture both pass the
\* depth filter and the pattern test for a request pathname, #match returns
\* an all-static route, whatever the order of the routes in the manifest.
C13_StaticBeatsCaptures ==
    \A i \in 1 .. Len(log) :
        LET S == Candidates(log[i].path)
        IN  ( /\ log[i].installed
              /\ \E k \in S : IsStatic(manifest.routes[k])
              /\ \E k \in S : ~IsStatic(manifest.routes[k]) ) =>
                /\ log[i].result.found
                /\ IsStatic(log[i].result.route)

\* C14: two calls of #match for the same pathname against the installed
\* manifest return the same route and the same captures, whatever was
\* resolved between them.
C14_SamePathSameResult ==
    \A i, j \in 1 .. Len(log) :
        (log[i].installed /\ log[j].installed /\ log[i].path = log[j].path)
            => log[i].result = log[j].result

C14_Witness ==
    /\ Len(manifest.routes) = 2
    /\ \E i, k, j \in 1 .. Len(log) :
          /\ i < k /\ k < j
          /\ log[i].path = log[j].path /\ log[k].path # log[i].path
          /\ Cardinality(Candidates(log[i].path)) = 2
          /\ log[j].result.found /\ log[j].result.route = manifest.routes[1]

\* C15: a request whose pathname has no route is resolved once more, with
\* /404, and never a third time; a response it gets has status 404, with the
\* content of the handler of the route of /404 streamed when there is one and
\* the fixed body otherwise; no other request is resolved twice.
C15_NotFoundResolvesOnce ==
    LET mine == ResolutionsOf(req.n)
    IN  /\ Len(mine) <= 2
        /\ Len(mine) = 2 <=> req.notFound
        /\ (Len(mine) >= 1 /\ mine[1].installed /\ ~mine[1].result.found)
              => req.notFound
        /\ req.notFound =>
              /\ mine[1].path = req.path /\ ~mine[1].result.found
              /\ mine[2].path = NotFoundPath
              /\ req.outcome = "response" =>
                    /\ req.status = 404
                    /\ IF mine[2].result.found
                       THEN /\ req.body = "stream" /\ req.streams = 1
                            /\ req.route = mine[2].result.route
                       ELSE req.body = "fixed" /\ req.streams = 0

C15_Witness ==
    /\ fs = << IndexPage, NotFoundPage, Endpoint >>
    /\ req.path = << "/", "about" >>
    /\ req.notFound /\ req.outcome = "response"
    /\ req.status = 404 /\ req.body = "stream"
    /\ req.route.fileURL = << "/" >> \o NotFoundPage.name
    /\ Len(ResolutionsOf(req.n)) = 2

\* C16: with a handler file <dir>/index under pages, a request for /<dir>
\* resolves to the route of that file.
C16_IndexCollapsesToParent ==
    \A i \in 1 .. Len(log) : \A f \in Files(fs, << >>) :
        (log[i].installed
           /\ StripExtension(f) = log[i].path \o << "/", "index" >>) =>
              /\ log[i].result.found
              /\ log[i].result.route.fileURL = f

\* C17: no call of #match is made while #manifest is not installed.
C17_MatchOnlyWhenInstalled == \A i \in 1 .. Len(log) : log[i].installed

\* C18: a request whose matched route, ordinary or of /404, has a module
\* with a default export that is no function ends with an error: it gets no
\* response and renderToStream is not called for it.
C18_NonFunctionExportThrows ==
    req.export \in DefaultExports \ { "function" } =>
        /\ req.pc = "done"
        /\ req.outcome = "threw" /\ req.error = "NoDefaultExport"
        /\ req.status = 0 /\ req.body = "none"
        /\ req.streams = 0

C18_Witness ==
    /\ req.notFound
    /\ req.route.fileURL = << "/" >> \o NotFoundPage.name
    /\ req.export = "undefined"
    /\ req.outcome = "threw" /\ req.streams = 0

\* C20: once the manifest is installed, every file under pages, at any depth,
\* has one route whose pathname is the path of the file relative to pages
\* without its extension.
C20_EveryFileHasItsRoute ==
    manifest.installed =>
        \A f \in Files(fs, << >>) :
            Cardinality({ k \in 1 .. Len(manifest.routes) :
                            manifest.routes[k].pathname = StripExtension(f) }) = 1

\* A segment [name] or [...name] of a file path, and the capture it stands
\* for.
IsBracketed(segment) ==
    \/ Len(segment) = 3 /\ segment[1] = "[" /\ segment[3] = "]"
    \/ /\ Len(segment) = 6 /\ segment[1] = "[" /\ segment[6] = "]"
       /\ segment[2] = "." /\ segment[3] = "." /\ segment[4] = "."

CaptureOf(segment) ==
    IF ~IsBracketed(segment) THEN segment
    ELSE IF Len(segment) = 3 THEN << ":", segment[2] >>
    ELSE << ":", segment[5], "*" >>

\* The pattern of a pathname with each of its segments replaced by its
\* capture.
RECURSIVE CapturesOf(_)
CapturesOf(segments) ==
    IF segments = << >> THEN << >>
    ELSE << "/" >> \o CaptureOf(Head(segments)) \o CapturesOf(Tail(segments))

\* Every bracket of the pathname belongs to a segment [name] or [...name].
WholeBrackets(pathname) ==
    \A i \in 1 .. Len(Tail(Split(pathname))) :
        LET segment == Tail(Split(pathname))[i]
        IN  IsBracketed(segment)
              \/ \A j \in 1 .. Len(segment) : segment[j] \notin { "[", "]" }

\* C21: once the manifest is installed, every file under pages whose
\* brackets are segments [name] or [...name] has a route whose pattern is the
\* file's pathname with each such segment replaced by :name or :name*.
C21_EveryBracketIsCapture ==
    manifest.installed =>
        \A f \in Files(fs, << >>) :
            ( /\ WholeBrackets(StripExtension(f))
              /\ \E j \in 1 .. Len(f) : f[j] = "[" ) =>
                \E k \in 1 .. Len(manifest.routes) :
                    manifest.routes[k].pattern =
                        CapturesOf(Tail(Split(StripExtension(f))))

\* A route with a catch-all.
HasCatchAll(r) == \E j \in 1 .. Len(r.pattern) : r.pattern[j] = "*"

\* C22: when two or more routes pass for a request pathname, #match returns
\* one whose score is the least of theirs, and one with a catch-all only when
\* each of them has a catch-all.
C22_LowestScoreReturned ==
    \A i \in 1 .. Len(log) :
        LET S == Candidates(log[i].path)
        IN  (log[i].installed /\ Cardinality(S) >= 2) =>
                /\ log[i].result.found
                /\ \A k \in S : log[i].result.route.score <= manifest.routes[k].score
                /\ HasCatchAll(log[i].result.route) =>
                      \A k \in S : HasCatchAll(manifest.routes[k])

\* The depth of a request pathname: its segments after the first.
SegmentDepth(path) == Cardinality({ j \in 1 .. Len(path) : path[j] = "/" }) - 1

\* The places of the routes whose pattern matches the request pathname.
PatternMatches(path) ==
    { k \in 1 .. Len(manifest.routes) :
        Exec(Parse(manifest.routes[k].pattern), StripIndex(path)).ok }

\* Resolution without depth filter: the first of the routes of least score
\* among those whose pattern matches.
Unfiltered(path) ==
    LET S == PatternMatches(path)
        L == { k \in S : \A j \in S : manifest.routes[k].score <= manifest.routes[j].score }
    IN  IF S = { } THEN NoMatch
        ELSE [found |-> TRUE, route |-> manifest.routes[Min(L)],
              params |-> Exec(Parse(manifest.routes[Min(L)].pattern),
                              StripIndex(path)).groups]

\* C23: a route whose pattern matches a request pathname has a depth that is
\* not smaller than the depth of the request, so #match returns what
\* resolution without the depth filter returns.
C23_DepthFilterIsRedundant ==
    \A i \in 1 .. Len(log) :
        log[i].installed =>
            /\ \A k \in PatternMatches(log[i].path) :
                  SegmentDepth(log[i].path) <= manifest.routes[k].depth
            /\ log[i].result = Unfiltered(log[i].path)

\* C24: the score of a route is 0 exactly when the route has no capture, and
\* +Infinity exactly when it has a catch-all.
C24_ScoreTellsCaptures ==
    \A k \in 1 .. Len(manifest.routes) :
        /\ manifest.routes[k].score = 0 <=> IsStatic(manifest.routes[k])
        /\ manifest.routes[k].score = Infinity <=> HasCatchAll(manifest.routes[k])

\* The replacement scripts of boundary b in the output.
Scripts(b) == { i \in 1 .. Len(out) : out[i].t = "script" /\ out[i].b = b }

\* C25: the replacement script of a boundary is enqueued as one chunk: while
\* its parts arrive nothing of it is in the output and the arrival of a part
\* enqueues nothing, whatever else is enqueued meanwhile; the step that
\* enqueues it has all its parts and enqueues one chunk.
C25_PayloadIsOneChunk ==
    /\ [](\A b \in Boundaries :
            /\ Cardinality(Scripts(b)) <= 1
            /\ dphase[b] = "render" => Scripts(b) = { })
    /\ [][\A b \in Boundaries :
            /\ dcount'[b] # dcount[b] => out' = out
            /\ Scripts(b)' # Scripts(b) =>
                  /\ dcount[b] = ScriptChunks
                  /\ out' = Append(out, DeferredScript(b))]_vars

C25_Witness ==
    /\ dphase = << "render", "render" >>
    /\ dcount = << 1, 1 >>
    /\ pc = "body" /\ cur.t = "text"
    /\ \E i \in 1 .. Len(out) : out[i].t = "text"

\* The whole main sequence is enqueued.
MainEnqueued == SelectSeq(out, IsMain) = Document

\* C26: in a run that is neither cancelled nor failed, every chunk of the
\* main sequence is eventually enqueued, also when a deferred promise that
\* was started never settles.
C26_MainNeverWaitsForDeferred ==
    <>(aborted \/ pc = "error" \/ (pc \in { "wait", "done" } /\ MainEnqueued))

C26_Witness ==
    /\ tree = TwoBoundaries
    /\ bind = << "pending", "pending" >>
    /\ dphase = << "racing", "timedout" >>
    /\ pc = "wait" /\ ~aborted
    /\ MainEnqueued

\* C27 as stated: no chunk of the main sequence is enqueued after a
\* replacement script.
C27_PayloadAfterMainDrained ==
    \A i, j \in 1 .. Len(out) :
        (i < j /\ out[i].t = "script") => out[j].t = "script"

\* C27, amended: a replacement script is enqueued only after the main
\* sequence has been enqueued up to and including the placeholder of its
\* boundary; the chunks of the main sequence that follow the placeholder may
\* be enqueued after the script.
C27_PayloadAfterOwnPlaceholder ==
    LET doc == Document
    IN  \A j \in 1 .. Len(out) :
            out[j].t = "script" =>
                LET before == SelectSeq(SubSeq(out, 1, j - 1), IsMain)
                    p      == Pos(doc, PlaceholderClose(out[j].b))
                IN  /\ p >= 1
                    /\ p <= Len(before)
                    /\ SubSeq(before, 1, p) = SubSeq(doc, 1, p)

C27_Witness ==
    /\ tree = TwoBoundaries
    /\ pc = "done" /\ ~aborted
    /\ \E j, k \in 1 .. Len(out) :
          /\ j < k
          /\ out[j] = Chunk("script", "then", 1)
          /\ out[k] = PlaceholderClose(2)
    /\ out[Len(out)] = Chunk("text", "t", 0)

\* The promise pushed to queue for boundary b has settled.
Settled(b) == dphase[b] \in { "flushed", "dropped", "rejected" }

\* C28: once aborted is set, pull() leaves its await of Promise.all(queue)
\* only when every promise of queue has settled, and no promise of queue
\* enqueues its replacement script.
C28_CancelledQueueDrainsSilently ==
    [][aborted =>
          /\ \A b \in Boundaries : Scripts(b)' = Scripts(b)
          /\ (pc = "wait" /\ pc' \in { "done", "error" }) =>
                \A b \in Boundaries : InQueue(b) => Settled(b)]_vars

\* C29: once aborted is set the flattener is not advanced again: no thunk and
\* no Await of the content tree is invoked and no deferred thunk is started.
C29_NoFlatteningOnceAborted == [][aborted => calls' = calls]_vars

\* C30: a boundary is rendered either inline, and then none of its
\* placeholder and script is in the output, or by its placeholder, and then
\* its replacement script follows, once, unless the run is cancelled or has
\* failed; inline content and a placeholder of one boundary are never both in
\* the output, and no script is in it twice.
C30_OnePathPerBoundary ==
    /\ [](\A b \in Boundaries :
            /\ ~(Has(Raw(b)) /\ Has(PlaceholderOpen(b)))
            /\ Has(Raw(b)) => Scripts(b) = { }
            /\ Cardinality(Scripts(b)) <= 1)
    /\ \A b \in Boundaries :
          Has(PlaceholderClose(b)) ~>
              (Cardinality(Scripts(b)) = 1 \/ aborted \/ pc = "error")

\* C32: after any calls of #match the installed manifest holds the routes
\* that construction gave it, in the same order and with the same fields, and
\* no call of #match changes it.
C32_MatchLeavesManifest ==
    /\ [](manifest.installed => manifest.routes = CreateManifest(fs).routes)
    /\ [][Len(log') > Len(log) => manifest' = manifest]_vars

C32_Witness ==
    /\ manifest.installed
    /\ manifest.routes = CreateManifest(fs).routes
    /\ \E i, j \in 1 .. Len(log) :
          /\ i < j
          /\ Cardinality(Candidates(log[i].path)) >= 2
          /\ log[i].result.found
          /\ log[i].result.route # manifest.routes[1]
          /\ \E k \in Candidates(log[i].path) :
                manifest.routes[k] # log[i].result.route
                  /\ \A l \in 1 .. Len(manifest.routes) :
                        manifest.routes[l] = log[i].result.route => k < l

\* A pathname without its last segment when that segment is index, whole.
StripIndexSegment(p) ==
    IF Len(p) >= 2 /\ Last(p) = "index" /\ p[Len(p) - 1] = "/"
    THEN SubSeq(p, 1, Len(p) - 1) ELSE p

\* C35: the stripping of index takes away a last segment that is index and
\* nothing else: two routes of files with different pathnames have different
\* patterns, and the route a request resolves to matches the pathname of the
\* request, stripped of a whole last segment index only.
C35_OnlyIndexSegmentStripped ==
    /\ \A k, l \in 1 .. Len(manifest.routes) :
          manifest.routes[k].pathname # manifest.routes[l].pathname =>
              manifest.routes[k].pattern # manifest.routes[l].pattern
    /\ \A i \in 1 .. Len(log) :
          (log[i].installed /\ log[i].result.found) =>
              Exec(Parse(log[i].result.route.pattern),
                   StripIndexSegment(log[i].path)).ok

\* The pattern of a file at the top of the pages directory does not compile.
PatternFails ==
    \E i \in 1 .. Len(fs) :
        ~fs[i].isDirectory /\ ~ValidPattern(RouteOf(<< "/" >> \o fs[i].name).pattern)

\* C34: when the pattern of a file does not compile, no manifest is
\* installed, not even the routes collected before that file, #init is never
\* resolved, and listen() never calls serve: no request comes in through it.
C34_FailedConstructionNeverServes ==
    PatternFails =>
        /\ ~manifest.installed /\ manifest.routes = << >>
        /\ init # "ready"
        /\ listening # "yes"
        /\ req.via # "listen"

C34_Witness ==
    /\ PatternFails
    /\ ValidPattern(RouteOf(<< "/" >> \o fs[1].name).pattern)
    /\ init = "failed"
    /\ listening = "awaiting"
    /\ req.pc = "done" /\ req.via = "render" /\ req.outcome = "threw"

\* C36: Await gives createDeferred the min and the max of the props of the
\* boundary, 20 and 5000 where the props give none, and a boundary that
\* gives its own min is rendered inline exactly when its wrapped computation
\* settles before that min.
C36_MinAndMaxOverridable ==
    /\ timed.phase # "new" =>
          /\ timed.min = MinOfProps(timed.props)
          /\ timed.max = MaxOf(timed.props)
    /\ (timed.props.hasMin /\ timed.phase \notin { "new", "first" }) =>
          (timed.phase = "inline" <=>
              (timed.props.settles /\ timed.props.at < timed.props.min))

\* The text chunks render(n) yields before it reaches the thunk named v, and
\* whether it reaches it.
RECURSIVE ChunksBefore(_, _)
ChunksBefore(n, v) ==
    LET RECURSIVE each(_)
        each(c) ==
            IF c = << >> THEN [found |-> FALSE, chunks |-> << >>]
            ELSE LET first == ChunksBefore(Head(c), v)
                 IN  IF first.found THEN first
                     ELSE [found  |-> each(Tail(c)).found,
                           chunks |-> first.chunks \o each(Tail(c)).chunks]
    IN  CASE n.k = "thunk" /\ n.v = v -> [found |-> TRUE, chunks |-> << >>]
          [] n.k = "thunk" /\ n.v # v -> ChunksBefore(n.c[1], v)
          [] n.k = "async"            -> ChunksBefore(n.c[1], v)
          [] n.k \in { "seq", "iter" } -> each(n.c)
          [] OTHER -> [found |-> FALSE, chunks |-> SelectSeq(render(n), IsText)]

\* What render() has yielded so far: the main chunks enqueued and the chunk
\* the loop of pull() holds.
Yielded ==
    SelectSeq(out, IsMain) \o (IF cur # NoValue /\ IsText(cur) THEN << cur >> ELSE << >>)

\* C31: what render() has yielded is at every moment a prefix of the chunks
\* of the tree in document order, and a thunk is invoked when the traversal
\* reaches it and not before: at its invocation the chunks yielded are the
\* chunks that precede it in the document, all of them handed on.
C31_DocumentOrderAndLazy ==
    /\ [](pc # "error" => IsPrefix(Yielded, Document))
    /\ [][(Len(calls') > Len(calls) /\ calls'[Len(calls')].t = "thunk") =>
              LET before == ChunksBefore(tree, calls'[Len(calls')].v)
              IN  /\ Len(calls') = Len(calls) + 1
                  /\ before.found
                  /\ cur = NoValue
                  /\ SelectSeq(out, IsMain) = before.chunks]_vars

C31_Witness ==
    /\ tree = PlainTree
    /\ calls = << Chunk("thunk", "f", 0) >>
    /\ out = << Chunk("text", "a", 0) >>
    /\ cur = NoValue /\ pc = "next"
    /\ work # << >> /\ Head(work).k = "seq"

\* The other run.
Other(i) == 3 - i

\* The document of run i: what its content yields, without the thunk.
DocumentOf(i) == SelectSeq(ContentOf(i), IsText)

\* C33: of two runs of renderToStream, each has its own abort flag, queue
\* and chunks: a step that sets the abort flag of one run changes nothing of
\* the other, whose chunks stay in document order and are complete when it
\* ends without being aborted itself; the queue of a run holds the deferred
\* promise of its own boundary only, and its output the chunks of its own.
C33_RunsShareNothing ==
    /\ [](\A i \in Runs :
            /\ \A k \in 1 .. Len(runs[i].queue) : runs[i].queue[k] = i
            /\ \A k \in 1 .. Len(runs[i].out) : runs[i].out[k].b \in { 0, i }
            /\ IsPrefix(SelectSeq(runs[i].out, IsMain), DocumentOf(i))
            /\ (runs[i].pc = "done" /\ ~runs[i].aborted) =>
                  /\ SelectSeq(runs[i].out, IsMain) = DocumentOf(i)
                  /\ \E k \in 1 .. Len(runs[i].out) :
                        runs[i].out[k] = Chunk("script", "then", i))
    /\ [][\A i \in Runs :
            runs'[i].aborted # runs[i].aborted =>
                runs'[Other(i)] = runs[Other(i)]]_vars

C33_Witness ==
    /\ runs[1].aborted /\ runs[1].pc = "wait"
    /\ runs[1].deferred = "racing" /\ runs[1].queue = << 1 >>
    /\ Len(runs[1].out) = 2
    /\ runs[2].pc = "done" /\ ~runs[2].aborted
    /\ runs[2].queue = << 2 >>
    /\ Len(runs[2].out) = 4

====
